---- MODULE Spec2Model ----
(***************************************************************************)
(* ShopAudit: the test orchestrator (TestRunner), its retry wrapper and    *)
(* the three per-URL checkers (ProductPageTester, ImageTester,             *)
(* ErrorDetector), as state machines over the browser driver's answers.    *)
(***************************************************************************)
EXTENDS Integers, Sequences, FiniteSets, TLC

\* ------------------------------------------------------------------ bounds
MaxUrls == 2        \* longest productUrls list
MaxRetry == 3       \* largest config.retryAttempts
MaxImages == 10     \* img elements on the freely chosen page
MaxRequests == 1    \* image responses captured on the freely chosen page
MaxEvents == 3      \* entries the page listeners record on the freely chosen page
MaxClock == 2       \* milliseconds the clock may advance while cleanup() is awaited
MaxPageErrors == 2  \* entries the in-page listeners capture on the freely chosen page
MaxCaptured == 2    \* image responses captured before analyzeImage is called on its own

VARIABLES
  transport,      \* who drives the TestRunner: "api" | "cli" | "http"
  exit,           \* the transport's answer: process exit code or HTTP status
  config,         \* TestConfig: baseUrl, productUrls, retryAttempts
  browser,        \* TestRunner.browser  ("null" | "open" | "closed")
  context,        \* TestRunner.context  ("null" | "open" | "closed")
  phase,          \* where the caller of the TestRunner stands
  i,              \* runTests: loop index over productUrls (1-based)
  step,           \* runTests: position inside the loop body
  results,        \* runTests: the TestReport under construction
  runError,       \* the error runTests threw
  reports,        \* report file sets written to outputDir
  clock,          \* the system clock, in milliseconds since the run started
  reportFilename, \* generateReport: the stem of the files it wrote
  links,          \* POST /test: the reports object of the response
  attempt,        \* runWithRetry: loop variable
  lastError,      \* runWithRetry: lastError
  rpc,            \* runWithRetry: position
  invocations,    \* runWithRetry: calls of testFn made by the current call
  delays,         \* runWithRetry: setTimeout delays of the current call
  thrown,         \* runWithRetry: the errors testFn threw in the current call
  cpc,            \* checker: position
  curl,           \* checker: the url argument
  result,         \* checker: the result object under construction
  imageRequests,  \* ImageTester: captured image responses
  imgIdx,         \* ImageTester: images analysed so far
  pageErrors,     \* ErrorDetector: the errors array of the in-page listeners
  openPages,      \* pages open in the browsing context
  ret             \* how the last testFn call settled

runnerVars == <<transport, exit, config, browser, context, phase, i, step, results,
               runError, reports, clock, reportFilename, links>>
retryVars == <<attempt, lastError, rpc, invocations, delays, thrown>>
checkVars == <<cpc, curl, result, imageRequests, imgIdx, pageErrors, openPages, ret>>
vars == <<transport, exit, config, browser, context, phase, i, step, results, runError, reports,
          clock, reportFilename, links,
          attempt, lastError, rpc, invocations, delays, thrown,
          cpc, curl, result, imageRequests, imgIdx, pageErrors, openPages, ret>>

\* ----------------------------------------------------------------- helpers
RECURSIVE SelectSeqIdx(_, _, _)
\* the entries s[k] of a sequence of names with keep[s[k]], in order (Array.filter)
SelectSeqIdx(s, keep, k) ==
  IF k > Len(s) THEN <<>>
  ELSE (IF keep[s[k]] THEN <<s[k]>> ELSE <<>>) \o SelectSeqIdx(s, keep, k + 1)

Range(s) == {s[k] : k \in 1..Len(s)}

NoRet == [status |-> "none"]
NoResult == [kind |-> "none"]
Undefined == [name |-> "undefined", n |-> 0]

\* --------------------------------------------------------------- the pages
\* The URL whose page is chosen freely, within the bounds above.
AnyUrl == "/products/any"

\* what a probe's selectors found: a match of its predicate, none, or a throw
ProbeOutcomes == {"match", "nomatch", "throw"}

\* Object.keys(result.elements), in insertion order
Elements == <<"title", "price", "description", "addToCartButton",
              "variants", "availability", "metaInfo">>

\* a product page with every feature: no variant selector, no out-of-stock marker
GoodObservation ==
  [e \in {"title", "price", "description", "addToCartButton", "metaInfo"} |-> "match"]
  @@ [e \in {"variants", "availability"} |-> "nomatch"]

GoodImage ==
  [src |-> "/img/a.png", alt |-> "photo", complete |-> TRUE,
   naturalWidth |-> 1, naturalHeight |-> 1, head |-> "ok"]

\* an image the server answers 404 for: the DOM never completes it
MissingImage ==
  [src |-> "/img/missing.png", alt |-> "photo", complete |-> FALSE,
   naturalWidth |-> 0, naturalHeight |-> 0, head |-> "notfound"]

\* an image the server answers 500 for
ErrorImage ==
  [src |-> "/img/error.png", alt |-> "", complete |-> FALSE,
   naturalWidth |-> 0, naturalHeight |-> 0, head |-> "notfound"]

\* the shop the runner is pointed at: one page per product URL.
\*   /products/ok        every feature, two images that load; the favicon is a 404
\*   /products/no-price  no price and no add-to-cart button, one image answered 500,
\*                       an XHR answered 503
\*   /products/404-img   the meta tag probe throws, ten images of which the last is
\*                       answered 404
\*   /products/timeout   navigation never completes; the part that loads logs a
\*                       console warning
Catalogue ==
  [u \in {"/products/ok"} |->
     [navOk |-> TRUE, obs |-> GoodObservation,
      images |-> <<GoodImage, GoodImage>>,
      responses |-> {},
      events |-> {[type |-> "response", level |-> "", status |-> 404,
                   resourceType |-> "other"]}]]
  @@ [u \in {"/products/no-price"} |->
     [navOk |-> TRUE,
      obs |-> [GoodObservation EXCEPT !["price"] = "nomatch",
                                      !["addToCartButton"] = "nomatch"],
      images |-> <<GoodImage, ErrorImage>>,
      responses |-> {[url |-> "/img/error.png", status |-> 500, resourceType |-> "image"]},
      events |-> {[type |-> "response", level |-> "", status |-> 503,
                   resourceType |-> "xhr"]}]]
  @@ [u \in {"/products/404-img"} |->
     [navOk |-> TRUE, obs |-> [GoodObservation EXCEPT !["metaInfo"] = "throw"],
      images |-> [k \in 1..9 |-> GoodImage] \o <<MissingImage>>,
      responses |-> {[url |-> "/img/missing.png", status |-> 404, resourceType |-> "image"]},
      events |-> {[type |-> "response", level |-> "", status |-> 404,
                   resourceType |-> "image"]}]]
  @@ [u \in {"/products/timeout"} |->
     [navOk |-> FALSE, obs |-> GoodObservation,
      images |-> <<>>, responses |-> {},
      events |-> {[type |-> "console", level |-> "warning", status |-> 0,
                   resourceType |-> ""]}]]

ShopUrls == DOMAIN Catalogue

\* config.baseUrl of the shop
BaseUrl == "https://shop.example"

\* whether page.goto(url) resolves
NavOutcomes(url) == IF url = AnyUrl THEN BOOLEAN ELSE {Catalogue[url].navOk}

AllObservations == [Range(Elements) -> ProbeOutcomes]

\* what the seven probes can find on the page
Observations(url) == IF url = AnyUrl THEN AllObservations ELSE {Catalogue[url].obs}

\* what the DOM reports of a sourced img element: complete, naturalWidth, naturalHeight
DomStates ==
  {<<TRUE, 1, 1>>, <<TRUE, 1, 0>>, <<TRUE, 0, 0>>, <<FALSE, 0, 0>>}

\* how a HEAD fetch of the source from inside the page ends: res.ok, a 404,
\* fetch rejecting (caught in the page: status 0), or page.evaluate rejecting
HeadOutcomes == {"ok", "notfound", "neterror", "throws"}

\* the img elements $$eval can report on the freely chosen page
ImageInputs ==
  {[src |-> "/img/a.png", alt |-> a, complete |-> d[1], naturalWidth |-> d[2],
    naturalHeight |-> d[3], head |-> h] :
     a \in {"", "photo"}, d \in DomStates, h \in HeadOutcomes}
  \cup {[src |-> s, alt |-> a, complete |-> TRUE, naturalWidth |-> 0,
         naturalHeight |-> 0, head |-> "ok"] : s \in {"", " "}, a \in {"", "photo"}}

\* the responses the freely chosen page can receive
ResponseInputs ==
  [url : {"/img/a.png"}, status : {200, 404, 500}, resourceType : {"image"}]
  \cup {[url |-> "/img/b.png", status |-> 200, resourceType |-> "image"],
        [url |-> "/js/app.js", status |-> 404, resourceType |-> "script"]}

\* the number of img elements on the page
ImageCounts(url) ==
  IF url = AnyUrl THEN 0..MaxImages ELSE {Len(Catalogue[url].images)}

\* the k-th img element of the page
ImagesAt(url, k) ==
  IF url = AnyUrl THEN ImageInputs ELSE {Catalogue[url].images[k]}

\* the responses that can still arrive while the page is open
Responses(url, captured) ==
  IF url = AnyUrl
  THEN IF Len(captured) < MaxRequests THEN ResponseInputs ELSE {}
  ELSE {r \in Catalogue[url].responses :
          \A k \in 1..Len(captured) : captured[k].url # r.url}

Event(type, level, status, resourceType) ==
  [type |-> type, level |-> level, status |-> status, resourceType |-> resourceType]

\* what the freely chosen page can emit while it is open: console messages,
\* uncaught errors, responses and failed requests
EventInputs ==
  {Event("console", l, 0, "") : l \in {"error", "warning", "info"}}
  \cup {Event("pageerror", "", 0, "")}
  \cup {Event("response", "", st, "xhr") : st \in {200, 404, 503}}
  \cup {Event("requestfailed", "", 0, t) : t \in {"stylesheet", "xhr"}}

\* a driver exception: newPage() or page.close() rejecting, tagged with the
\* runWithRetry attempt it happened in
DriverError(name) == [name |-> name, n |-> invocations]

\* ------------------------------------------------------------ page sessions
\* whether the checker's catch block ran on this result
Caught(r) ==
  CASE r.kind = "product" -> "Page load failed" \in Range(r.errors)
    [] r.kind = "image" -> "Image test failed" \in Range(r.errors)
    [] OTHER -> \E k \in 1..Len(r.consoleErrors) :
                  r.consoleErrors[k].source = "test-runner"

\* page.close() as the last statement of the try block: skipped by a caught error
ClosedAtEndOfTry(pages, r) == IF Caught(r) THEN pages ELSE pages - 1

\* finally { await page.close() }: the pages open once the checker's page is closed
ClosedInFinally(pages, r) == pages - 1

\* ------------------------------------------------------ ProductPageTester
\* the flag a probe leaves in result.elements (all flags start false)
ProbeFlag(element, outcome) ==
  CASE outcome = "throw" -> FALSE
    [] element = "variants" -> TRUE
    [] element = "availability" -> outcome = "nomatch"
    [] OTHER -> outcome = "match"

ProbeErrorText(element) ==
  CASE element = "title" -> "Title test failed"
    [] element = "price" -> "Price test failed"
    [] element = "description" -> "Description test failed"
    [] element = "addToCartButton" -> "Add to cart button test failed"
    [] element = "variants" -> "Variants test failed"
    [] element = "availability" -> "Availability test failed"
    [] OTHER -> "Meta information test failed"

RECURSIVE ProbeErrors(_, _)
\* the error strings the seven probes push, in probe order
ProbeErrors(obs, k) ==
  IF k > Len(Elements) THEN <<>>
  ELSE (IF obs[Elements[k]] = "throw" THEN <<ProbeErrorText(Elements[k])>> ELSE <<>>)
       \o ProbeErrors(obs, k + 1)

NewProductResult(url) ==
  [kind |-> "product", url |-> url, success |-> FALSE,
   elements |-> [e \in Range(Elements) |-> FALSE],
   missingElements |-> <<>>, errors |-> <<>>]

\* .some(present => present) in place of .every
ProductSuccessSome(elements, errors) ==
  (\E e \in Range(Elements) : elements[e]) /\ Len(errors) = 0

\* allElementsPresent && result.errors.length === 0
ProductSuccess(elements, errors) ==
  (\A e \in Range(Elements) : elements[e]) /\ Len(errors) = 0

\* Object.entries(elements).filter(([_, present]) => !present).map(([e]) => e)
MissingElements(elements) ==
  SelectSeqIdx(Elements, [e \in Range(Elements) |-> ~elements[e]], 1)

\* the try block after a successful goto: the seven probes, then success
ProbedResult(r, obs) ==
  LET elements == [e \in Range(Elements) |-> ProbeFlag(e, obs[e])]
      errors == r.errors \o ProbeErrors(obs, 1)
      success == ProductSuccess(elements, errors)
  IN [r EXCEPT !.elements = elements, !.errors = errors, !.success = success,
               !.missingElements = IF ~success THEN MissingElements(elements)
                                   ELSE r.missingElements]

\* the catch block: goto threw
\* a catch block that records nothing
ProductLoadFailedSilently(r) == r

\* catch (error) { result.errors.push(`Page load failed: ...`) }
ProductLoadFailed(r) ==
  [r EXCEPT !.errors = Append(r.errors, "Page load failed")]

\* const page = await this.context.newPage(), then the fresh result object
testProductPage_newPage ==
  /\ cpc = "pp_newPage"
  /\ \/ /\ openPages' = openPages + 1
        /\ result' = NewProductResult(curl)
        /\ cpc' = "pp_goto"
        /\ UNCHANGED ret
     \/ /\ ret' = [status |-> "threw", error |-> DriverError("newPage")]
        /\ cpc' = "idle"
        /\ UNCHANGED <<openPages, result>>
  /\ UNCHANGED <<runnerVars, retryVars, curl, imageRequests, imgIdx, pageErrors>>

\* the try / catch around goto and the seven probes
testProductPage_goto ==
  /\ cpc = "pp_goto"
  /\ \E ok \in NavOutcomes(curl) :
       IF ok
       THEN \E obs \in Observations(curl) : result' = ProbedResult(result, obs)
       ELSE result' = ProductLoadFailed(result)
  /\ cpc' = "pp_close"
  /\ UNCHANGED <<runnerVars, retryVars, curl, imageRequests, imgIdx, pageErrors, openPages, ret>>

\* finally { await page.close() }; return result. The page session ends with the
\* close call; a close that rejects replaces the return by its rejection.
testProductPage_close ==
  /\ cpc = "pp_close"
  /\ openPages' = ClosedInFinally(openPages, result)
  /\ \/ ret' = [status |-> "returned", value |-> result]
     \/ ret' = [status |-> "threw", error |-> DriverError("close")]
  /\ cpc' = "idle"
  /\ UNCHANGED <<runnerVars, retryVars, curl, result, imageRequests, imgIdx, pageErrors>>

\* ------------------------------------------------------------ ImageTester
NewImageResult(url) ==
  [kind |-> "image", url |-> url, success |-> FALSE,
   images |-> [total |-> 0, loaded |-> 0, failed |-> 0, broken |-> 0],
   imageDetails |-> [length |-> 0, withoutAlt |-> 0],
   errors |-> <<>>]

\* the response listener: image responses are recorded with their status
CaptureResponse(requests, r) ==
  IF r.resourceType = "image"
  THEN Append(requests, [url |-> r.url, status |-> r.status])
  ELSE requests

\* a lookup that takes the first captured response whatever its URL
FindFirstRequest(requests, src) ==
  IF requests = <<>> THEN [found |-> FALSE]
  ELSE [found |-> TRUE, status |-> requests[1].status]

\* imageRequests.find(req => req.url === img.src): the first match, or none
FindRequest(requests, src) ==
  LET hits == {k \in 1..Len(requests) : requests[k].url = src}
  IN IF hits = {} THEN [found |-> FALSE]
     ELSE [found |-> TRUE,
           status |-> requests[CHOOSE k \in hits : \A j \in hits : k <= j].status]

\* !img.src || img.src.trim() === ''
BlankSrc(src) == src \in {"", " "}

\* analyzeImage: the status (and error text) of one image
analyzeImage(img, requests) ==
  LET req == FindRequest(requests, img.src)
  IN CASE BlankSrc(img.src) -> [status |-> "broken", error |-> "No source URL"]
       [] ~BlankSrc(img.src)
            /\ img.complete /\ img.naturalWidth > 0 /\ img.naturalHeight > 0 ->
            [status |-> "loaded", error |-> ""]
       [] OTHER ->
            IF req.found
            THEN CASE req.status >= 200 /\ req.status < 300 ->
                        [status |-> "loaded", error |-> ""]
                   [] req.status = 404 ->
                        [status |-> "broken", error |-> "Image not found (404)"]
                   [] OTHER ->
                        [status |-> "failed", error |-> "HTTP " \o ToString(req.status)]
            ELSE CASE img.head = "ok" -> [status |-> "loaded", error |-> ""]
                   [] img.head = "notfound" -> [status |-> "broken", error |-> "HTTP 404"]
                   [] img.head = "neterror" -> [status |-> "broken", error |-> "HTTP 0"]
                   [] OTHER -> [status |-> "failed", error |-> "evaluate failed"]

\* a tally that counts only loaded images
TallyLoadedOnly(images, status) ==
  IF status = "loaded" THEN [images EXCEPT !.loaded = @ + 1] ELSE images

\* the if / else-if chain that counts one analysed image
Tally(images, status) ==
  CASE status = "loaded" -> [images EXCEPT !.loaded = @ + 1]
    [] status = "failed" -> [images EXCEPT !.failed = @ + 1]
    [] status = "broken" -> [images EXCEPT !.broken = @ + 1]
    [] OTHER -> images

\* !img.alt || img.alt.trim() === ''
BlankAlt(alt) == alt \in {"", " "}

\* loaded / total >= 0.9 in floating point: 0 / 0 is NaN, and NaN >= 0.9 is false
RateAtLeast90(loaded, total) == total # 0 /\ 10 * loaded >= 9 * total

\* the success rate alone
ImageSuccessRateOnly(images) == RateAtLeast90(images.loaded, images.total)

\* successRate >= 0.9 && result.images.broken === 0
ImageSuccess(images) ==
  RateAtLeast90(images.loaded, images.total) /\ images.broken = 0

\* the code after the loop: the alt-text error, then success
ImagesJudged(r) ==
  [r EXCEPT !.errors =
              IF r.imageDetails.withoutAlt > 0
              THEN Append(@, ToString(r.imageDetails.withoutAlt)
                               \o " images missing alt text")
              ELSE @,
            !.success = ImageSuccess(r.images)]

\* one pass of the loop body
ImageAnalysed(r, img, requests) ==
  LET detail == analyzeImage(img, requests)
  IN [r EXCEPT !.imageDetails =
                 [length |-> @.length + 1,
                  withoutAlt |-> @.withoutAlt + (IF BlankAlt(img.alt) THEN 1 ELSE 0)],
               !.images = Tally(@, detail.status)]

\* the catch block
ImageTestFailed(r) == [r EXCEPT !.errors = Append(@, "Image test failed")]

testImageLoading_newPage ==
  /\ cpc = "it_newPage"
  /\ \/ /\ openPages' = openPages + 1
        /\ result' = NewImageResult(curl)
        /\ imageRequests' = <<>>
        /\ imgIdx' = 0
        /\ cpc' = "it_goto"
        /\ UNCHANGED ret
     \/ /\ ret' = [status |-> "threw", error |-> DriverError("newPage")]
        /\ cpc' = "idle"
        /\ UNCHANGED <<openPages, result, imageRequests, imgIdx>>
  /\ UNCHANGED <<runnerVars, retryVars, curl, pageErrors>>

\* page.on('response', ...) firing while the page is open
testImageLoading_response ==
  /\ cpc \in {"it_goto", "it_loop", "it_close"}
  /\ \E r \in Responses(curl, imageRequests) :
       imageRequests' = CaptureResponse(imageRequests, r)
  /\ UNCHANGED <<runnerVars, retryVars, cpc, curl, result, imgIdx, pageErrors, openPages, ret>>

\* goto, the 2 s wait and $$eval('img'): the images are known, or the catch block runs
testImageLoading_goto ==
  /\ cpc = "it_goto"
  /\ \E ok \in NavOutcomes(curl) :
       IF ok
       THEN \E n \in ImageCounts(curl) :
              LET r == [result EXCEPT !.images.total = n]
              IN IF n = 0
                 THEN result' = ImagesJudged(r) /\ cpc' = "it_close"
                 ELSE result' = r /\ cpc' = "it_loop"
       ELSE result' = ImageTestFailed(result) /\ cpc' = "it_close"
  /\ UNCHANGED <<runnerVars, retryVars, curl, imageRequests, imgIdx, pageErrors, openPages, ret>>

\* one await this.analyzeImage(...) of the loop; after the last, the code up to finally
testImageLoading_analyze ==
  /\ cpc = "it_loop"
  /\ imgIdx < result.images.total
  /\ \E img \in ImagesAt(curl, imgIdx + 1) :
       LET r == ImageAnalysed(result, img, imageRequests)
       IN IF imgIdx + 1 = result.images.total
          THEN result' = ImagesJudged(r) /\ cpc' = "it_close"
          ELSE result' = r /\ cpc' = "it_loop"
  /\ imgIdx' = imgIdx + 1
  /\ UNCHANGED <<runnerVars, retryVars, curl, imageRequests, pageErrors, openPages, ret>>

testImageLoading_close ==
  /\ cpc = "it_close"
  /\ openPages' = ClosedInFinally(openPages, result)
  /\ \/ ret' = [status |-> "returned", value |-> result]
     \/ ret' = [status |-> "threw", error |-> DriverError("close")]
  /\ cpc' = "idle"
  /\ UNCHANGED <<runnerVars, retryVars, curl, result, imageRequests, imgIdx, pageErrors>>

\* ---------------------------------------------------------- ErrorDetector
NewErrorResult(url) ==
  [kind |-> "errors", url |-> url, success |-> FALSE,
   consoleErrors |-> <<>>, networkErrors |-> <<>>, resourceErrors |-> <<>>,
   totalErrors |-> 0]

getResourceType(playwrightType) ==
  CASE playwrightType = "stylesheet" -> "css"
    [] playwrightType = "script" -> "js"
    [] playwrightType = "image" -> "image"
    [] playwrightType = "font" -> "font"
    [] OTHER -> "other"

\* the four page.on(...) listeners, each pushing to the result's lists
Listener(r, ev) ==
  CASE ev.type = "console" ->
         IF ev.level = "error" \/ ev.level = "warning"
         THEN [r EXCEPT !.consoleErrors =
                 Append(@, [level |-> ev.level, source |-> "page"])]
         ELSE r
    [] ev.type = "pageerror" ->
         [r EXCEPT !.consoleErrors = Append(@, [level |-> "error", source |-> "stack"])]
    [] ev.type = "response" ->
         IF ev.status >= 400
         THEN [r EXCEPT !.networkErrors =
                 Append(@, [status |-> ev.status, resourceType |-> ev.resourceType])]
         ELSE r
    [] OTHER ->
         [r EXCEPT !.resourceErrors =
            Append(@, [type |-> getResourceType(ev.resourceType)])]

\* what the in-page listeners can capture on the freely chosen page: an
\* unhandled promise rejection, or an uncaught error of a script
ScriptErrorInputs ==
  {[source |-> "unhandledrejection"], [source |-> "/js/app.js"]}

\* the rejections and uncaught errors the page can still raise; the pages of the
\* shop raise none
ScriptErrors(url, captured) ==
  IF url = AnyUrl /\ Len(captured) < MaxPageErrors THEN ScriptErrorInputs ELSE {}

\* the entries the listeners have recorded
Recorded(r) ==
  Len(SelectSeq(r.consoleErrors, LAMBDA e : e.source # "test-runner"))
    + Len(r.networkErrors) + Len(r.resourceErrors)

\* the events the page can still emit while it is open
PageEvents(url, r) ==
  IF url = AnyUrl
  THEN IF Recorded(r) < MaxEvents THEN EventInputs ELSE {}
  ELSE IF Recorded(r) < Cardinality(Catalogue[url].events)
       THEN Catalogue[url].events ELSE {}

\* page.evaluate installs the in-page listeners and returns their errors array
\* as it is when the function returns: nothing has been pushed to it yet
additionalErrors == <<>>

RECURSIVE AsConsoleErrors(_)
\* additionalErrors.forEach(error => result.consoleErrors.push({level: 'error', ...}))
AsConsoleErrors(errors) ==
  IF errors = <<>> THEN <<>>
  ELSE <<[level |-> "error", source |-> Head(errors).source]>>
       \o AsConsoleErrors(Tail(errors))

\* the end of the try block: totalErrors, then success
ErrorsJudged(r) ==
  LET consoleErrors == r.consoleErrors \o AsConsoleErrors(additionalErrors)
      criticalErrors == Len(SelectSeq(consoleErrors, LAMBDA e : e.level = "error"))
      networkFailures == Len(SelectSeq(r.networkErrors, LAMBDA e : e.status >= 500))
  IN [r EXCEPT !.consoleErrors = consoleErrors,
               !.totalErrors = Len(consoleErrors) + Len(r.networkErrors)
                                 + Len(r.resourceErrors),
               !.success = criticalErrors = 0 /\ networkFailures = 0]

\* the catch block: one console entry from the runner, and totalErrors++
ErrorLoadFailed(r) ==
  [r EXCEPT !.consoleErrors = Append(@, [level |-> "error", source |-> "test-runner"]),
            !.totalErrors = @ + 1]

detectErrors_newPage ==
  /\ cpc = "ed_newPage"
  /\ \/ /\ openPages' = openPages + 1
        /\ result' = NewErrorResult(curl)
        /\ pageErrors' = <<>>
        /\ cpc' = "ed_goto"
        /\ UNCHANGED ret
     \/ /\ ret' = [status |-> "threw", error |-> DriverError("newPage")]
        /\ cpc' = "idle"
        /\ UNCHANGED <<openPages, result, pageErrors>>
  /\ UNCHANGED <<runnerVars, retryVars, curl, imageRequests, imgIdx>>

\* one of the listeners page.evaluate installed in the page firing: it pushes to
\* the errors array that lives in the page. The listeners exist once the try
\* block has reached page.evaluate, until the page is closed.
detectErrors_inpage ==
  /\ cpc = "ed_close"
  /\ ~Caught(result)
  /\ \E e \in ScriptErrors(curl, pageErrors) : pageErrors' = Append(pageErrors, e)
  /\ UNCHANGED <<runnerVars, retryVars, cpc, curl, result, imageRequests, imgIdx, openPages,
                 ret>>

\* a listener firing: the listeners stay attached from their registration until
\* the page is closed, so also while await page.close() is pending
detectErrors_event ==
  /\ cpc \in {"ed_goto", "ed_close"}
  /\ \E ev \in PageEvents(curl, result) : result' = Listener(result, ev)
  /\ UNCHANGED <<runnerVars, retryVars, cpc, curl, imageRequests, imgIdx, pageErrors, openPages,
                 ret>>

\* goto, the 3 s wait, evaluate and the judgement; or the catch block
detectErrors_goto ==
  /\ cpc = "ed_goto"
  /\ \E ok \in NavOutcomes(curl) :
       result' = IF ok THEN ErrorsJudged(result) ELSE ErrorLoadFailed(result)
  /\ cpc' = "ed_close"
  /\ UNCHANGED <<runnerVars, retryVars, curl, imageRequests, imgIdx, pageErrors, openPages, ret>>

detectErrors_close ==
  /\ cpc = "ed_close"
  /\ openPages' = ClosedInFinally(openPages, result)
  /\ \/ ret' = [status |-> "returned", value |-> result]
     \/ ret' = [status |-> "threw", error |-> DriverError("close")]
  /\ cpc' = "idle"
  /\ UNCHANGED <<runnerVars, retryVars, curl, result, imageRequests, imgIdx, pageErrors>>

\* ------------------------------------------------------------- TestRunner
\* how initialize() ends: both handles acquired, or chromium.launch,
\* browser.newContext or context.addCookies rejecting
InitOutcomes == {"ok", "launchFailed", "contextFailed", "cookiesFailed"}

initialize ==
  /\ phase = "new"
  /\ \E o \in InitOutcomes :
       /\ browser' = IF o = "launchFailed" THEN "null" ELSE "open"
       /\ context' = IF o \in {"launchFailed", "contextFailed"} THEN "null" ELSE "open"
       /\ phase' = IF o = "ok" THEN "ready" ELSE "initFailed"
  /\ UNCHANGED <<clock, reportFilename, links, transport, exit, config, i, step, results, runError, reports, retryVars, checkVars>>

\* ---- report files (ReportGenerator.generateReport) and the clock
NoFile == "none"
NoLinks == [json |-> "none", html |-> "none"]

\* Digits of n, left-padded with zeros to three places (the milliseconds field)
Pad3(n) ==
  IF n < 10 THEN "00" \o ToString(n)
  ELSE IF n < 100 THEN "0" \o ToString(n) ELSE ToString(n)

\* new Date().toISOString().replace(/[:.]/g, '-') for a Date `ms` milliseconds
\* into the minute the run started in
Timestamp(ms) ==
  "2026-01-01T00-00-0" \o ToString(ms \div 1000) \o "-" \o Pad3(ms % 1000) \o "Z"

ReportFilename(ms) == "test-report-" \o Timestamp(ms)

\* Time passes while one of cleanup()'s close calls is awaited
cleanup_elapse ==
  /\ phase \in {"returned", "cleaning"}
  /\ clock < MaxClock
  /\ clock' = clock + 1
  /\ UNCHANGED <<reportFilename, links, transport, exit, config, browser, context, phase, i,
                 step, results, runError, reports, retryVars, checkVars>>

NewReport ==
  [kind |-> "report",
   totalTests |-> Len(config.productUrls) * 3,
   passedTests |-> 0, failedTests |-> 0,
   productPageResults |-> <<>>, imageResults |-> <<>>, errorResults |-> <<>>,
   summary |-> [criticalIssues |-> 0, warnings |-> 0, recommendations |-> <<>>]]

\* a guard that forgets the context
BrowserAcquired(b, c) == b # "null"

\* !(!this.browser || !this.context)
Acquired(b, c) == b # "null" /\ c # "null"

\* the guard of runTests and the fresh report. The two transports call runTests
\* only after initialize() has resolved; a direct caller may call it at any time.
runTests_start ==
  /\ \/ phase = "ready"
     \/ transport = "api" /\ phase \in {"new", "initFailed"}
  /\ IF Acquired(browser, context)
     THEN /\ phase' = "running"
          /\ results' = NewReport
          /\ i' = 1
          /\ step' = "product"
          /\ UNCHANGED runError
     ELSE /\ phase' = "threw"
          /\ runError' = [name |-> "Browser not initialized", n |-> 0]
          /\ UNCHANGED <<results, i, step>>
  /\ UNCHANGED <<clock, reportFilename, links, transport, exit, config, browser, context, reports, retryVars, checkVars>>

\* ---- numbers that may be missing: config.retryAttempts is whatever the
\* transport put there. NaN and undefined are encoded as two integers no retry
\* count in the model takes; every comparison goes through Less / LessOrEqual.
NaN == -1000
Omitted == -1001

IsNumber(n) == n \notin {NaN, Omitted}

\* a < n and a <= n for a number a: false when n is NaN or undefined
Less(a, n) == IF IsNumber(n) THEN a < n ELSE FALSE
LessOrEqual(a, n) == IF IsNumber(n) THEN a <= n ELSE FALSE

\* the loop guard that stops one attempt early
RetryGuardOffByOne(a, n) == Less(a, n)

\* a loop that tests its guard only after the first attempt
RetryGuardAfterFirst(a, n) == a = 1 \/ LessOrEqual(a, n)

\* attempt <= this.config.retryAttempts
RetryGuard(a, n) == LessOrEqual(a, n)

\* the order with the image check and the error check exchanged
CheckerForSwapped(s) ==
  CASE s = "product" -> "pp_newPage"
    [] s = "image" -> "ed_newPage"
    [] OTHER -> "it_newPage"

\* the checker each of the three runWithRetry calls of the loop body wraps
CheckerFor(s) ==
  CASE s = "product" -> "pp_newPage"
    [] s = "image" -> "it_newPage"
    [] OTHER -> "ed_newPage"

\* runTests reaches one of its three runWithRetry calls
runWithRetry_begin ==
  /\ phase = "running"
  /\ rpc \in {"idle", "returned"}
  /\ i <= Len(config.productUrls)
  /\ attempt' = 1
  /\ lastError' = Undefined
  /\ invocations' = 0
  /\ delays' = <<>>
  /\ thrown' = <<>>
  /\ rpc' = "loop"
  /\ UNCHANGED <<runnerVars, checkVars>>

\* a catch block that logs the failure and lets the run go on
runTestsCatchSwallows == "running"

\* runTests' catch block: spinner.fail, throw error
runTestsCatch == "threw"

\* the for-loop test: call testFn, or fall out of the loop and throw lastError,
\* which runTests' catch block rethrows
runWithRetry_loop ==
  /\ rpc = "loop"
  /\ IF RetryGuard(attempt, config.retryAttempts)
     THEN /\ cpc' = CheckerFor(step)
          /\ curl' = config.productUrls[i]
          /\ ret' = NoRet
          /\ invocations' = invocations + 1
          /\ rpc' = "await"
          /\ UNCHANGED <<phase, runError>>
     ELSE /\ rpc' = "threw"
          /\ phase' = runTestsCatch
          /\ runError' = lastError
          /\ UNCHANGED <<cpc, curl, ret, invocations>>
  /\ UNCHANGED <<clock, reportFilename, links, transport, exit, config, browser, context, i, step, results, reports,
                 attempt, lastError, delays, thrown,
                 result, imageRequests, imgIdx, pageErrors, openPages>>

\* one per URL instead of one per check
CountedPerUrl(r, k) ==
  IF r.productPageResults[k].success /\ r.imageResults[k].success
       /\ r.errorResults[k].success
  THEN [r EXCEPT !.passedTests = @ + 1]
  ELSE [r EXCEPT !.failedTests = @ + 1]

\* the three counter updates after the error check of URL k
Counted(r, k) ==
  LET passed == (IF r.productPageResults[k].success THEN 1 ELSE 0)
                  + (IF r.imageResults[k].success THEN 1 ELSE 0)
                  + (IF r.errorResults[k].success THEN 1 ELSE 0)
  IN [r EXCEPT !.passedTests = @ + passed, !.failedTests = @ + (3 - passed)]

\* results.<list>.push(<result>) after each runWithRetry call
Pushed(r, s, value) ==
  CASE s = "product" -> [r EXCEPT !.productPageResults = Append(@, value)]
    [] s = "image" -> [r EXCEPT !.imageResults = Append(@, value)]
    [] OTHER -> [r EXCEPT !.errorResults = Append(@, value)]

\* a wait of the same length before every retry
BackoffDelayConstant(a) == 1000

\* setTimeout(resolve, 1000 * attempt)
BackoffDelay(a) == 1000 * a

\* testFn settles: its value is returned to runTests, which pushes it and moves on;
\* or the catch block keeps the error and waits before the next attempt
runWithRetry_settle ==
  /\ rpc = "await"
  /\ cpc = "idle"
  /\ ret.status # "none"
  /\ IF ret.status = "returned"
     THEN /\ rpc' = "returned"
          /\ results' = IF step = "errors"
                        THEN Counted(Pushed(results, step, ret.value), i)
                        ELSE Pushed(results, step, ret.value)
          /\ step' = CASE step = "product" -> "image"
                       [] step = "image" -> "errors"
                       [] OTHER -> "product"
          /\ i' = IF step = "errors" THEN i + 1 ELSE i
          /\ UNCHANGED <<attempt, lastError, delays, thrown>>
     ELSE /\ rpc' = "loop"
          /\ lastError' = ret.error
          /\ thrown' = Append(thrown, ret.error)
          /\ delays' = IF Less(attempt, config.retryAttempts)
                       THEN Append(delays, BackoffDelay(attempt)) ELSE delays
          /\ attempt' = attempt + 1
          /\ UNCHANGED <<results, step, i>>
  /\ UNCHANGED <<clock, reportFilename, links, transport, exit, config, browser, context, phase, runError, reports, invocations,
                 checkVars>>

\* the recommendations returned as pushed
KeepAll(s, seen) == s

RECURSIVE Dedup(_, _)
\* [...new Set(recommendations)]: first occurrences, in order
Dedup(s, seen) ==
  IF s = <<>> THEN <<>>
  ELSE IF Head(s) \in seen THEN Dedup(Tail(s), seen)
       ELSE <<Head(s)>> \o Dedup(Tail(s), seen \cup {Head(s)})

RECURSIVE ProductRecommendations(_)
ProductRecommendations(rs) ==
  IF rs = <<>> THEN <<>>
  ELSE (IF ~Head(rs).success
        THEN (IF "addToCartButton" \in Range(Head(rs).missingElements)
              THEN <<"Add-to-cart button is missing or non-functional">> ELSE <<>>)
             \o (IF "price" \in Range(Head(rs).missingElements)
                 THEN <<"Product price is not displayed correctly">> ELSE <<>>)
        ELSE <<>>)
       \o ProductRecommendations(Tail(rs))

RECURSIVE ImageRecommendations(_)
ImageRecommendations(rs) ==
  IF rs = <<>> THEN <<>>
  ELSE (IF Head(rs).images.failed > 0
        THEN <<"Fix " \o ToString(Head(rs).images.failed) \o " broken images">>
        ELSE <<>>)
       \o ImageRecommendations(Tail(rs))

RECURSIVE ErrorRecommendations(_)
ErrorRecommendations(rs) ==
  IF rs = <<>> THEN <<>>
  ELSE (IF Len(Head(rs).consoleErrors) > 0
        THEN <<"Fix JavaScript console errors">> ELSE <<>>)
       \o (IF Len(Head(rs).networkErrors) > 0
           THEN <<"Resolve network request failures">> ELSE <<>>)
       \o ErrorRecommendations(Tail(rs))

RECURSIVE ProductIssues(_)
\* the first forEach: criticalIssues++ for each product page result that failed
ProductIssues(rs) ==
  IF rs = <<>> THEN 0
  ELSE (IF ~Head(rs).success THEN 1 ELSE 0) + ProductIssues(Tail(rs))

RECURSIVE ImageWarningsBrokenToo(_)
\* a warning for broken images as well as failed ones
ImageWarningsBrokenToo(rs) ==
  IF rs = <<>> THEN 0
  ELSE (IF Head(rs).images.failed > 0 \/ Head(rs).images.broken > 0 THEN 1 ELSE 0)
       + ImageWarningsBrokenToo(Tail(rs))

RECURSIVE ImageWarnings(_)
\* the second forEach: warnings++ for each image result with images.failed > 0
ImageWarnings(rs) ==
  IF rs = <<>> THEN 0
  ELSE (IF Head(rs).images.failed > 0 THEN 1 ELSE 0) + ImageWarnings(Tail(rs))

RECURSIVE ConsoleWarnings(_)
\* the third forEach: warnings++ for each error result with console entries
ConsoleWarnings(rs) ==
  IF rs = <<>> THEN 0
  ELSE (IF Len(Head(rs).consoleErrors) > 0 THEN 1 ELSE 0) + ConsoleWarnings(Tail(rs))

RECURSIVE NetworkIssuesServerOnly(_)
\* a count that looks only at the responses that fail the error check (>= 500)
NetworkIssuesServerOnly(rs) ==
  IF rs = <<>> THEN 0
  ELSE (IF \E k \in 1..Len(Head(rs).networkErrors) : Head(rs).networkErrors[k].status >= 500
        THEN 1 ELSE 0) + NetworkIssuesServerOnly(Tail(rs))

RECURSIVE NetworkIssues(_)
\* the third forEach: criticalIssues++ for each error result with network errors
NetworkIssues(rs) ==
  IF rs = <<>> THEN 0
  ELSE (IF Len(Head(rs).networkErrors) > 0 THEN 1 ELSE 0) + NetworkIssues(Tail(rs))

generateSummary(r) ==
  [criticalIssues |-> ProductIssues(r.productPageResults) + NetworkIssues(r.errorResults),
   warnings |-> ImageWarnings(r.imageResults) + ConsoleWarnings(r.errorResults),
   recommendations |->
     Dedup(ProductRecommendations(r.productPageResults)
             \o ImageRecommendations(r.imageResults)
             \o ErrorRecommendations(r.errorResults), {})]

\* after the loop: the summary, the report files, return results; generateReport
\* rejecting is rethrown by the catch block
runTests_finish ==
  /\ phase = "running"
  /\ rpc \in {"idle", "returned"}
  /\ i > Len(config.productUrls)
  /\ results' = [results EXCEPT !.summary = generateSummary(results)]
  /\ \/ /\ reports' = reports + 1
        /\ reportFilename' = ReportFilename(clock)
        /\ phase' = "returned"
        /\ UNCHANGED runError
     \/ /\ phase' = runTestsCatch
        /\ runError' = [name |-> "generateReport", n |-> 0]
        /\ UNCHANGED <<reports, reportFilename>>
  /\ UNCHANGED <<clock, links, transport, exit, config, browser, context, i, step, retryVars,
                 checkVars>>

\* cleanup() with the two close calls exchanged
CleanupBrowserFirst == <<"browser", "context">>

\* cleanup(): this.context.close(), then this.browser.close()
CleanupOrder == <<"context", "browser">>

\* if (this.<handle>) await this.<handle>.close(), resolving: a handle that was
\* never acquired is skipped; closing the context closes its pages
Close(handle) ==
  IF handle = "context"
  THEN /\ context' = IF context = "null" THEN "null" ELSE "closed"
       /\ openPages' = 0
       /\ UNCHANGED browser
  ELSE /\ browser' = IF browser = "null" THEN "null" ELSE "closed"
       /\ UNCHANGED <<context, openPages>>

\* the close call on an acquired handle rejecting: the catch block rethrows
CloseRejects(handle) ==
  /\ IF handle = "context" THEN context # "null" ELSE browser # "null"
  /\ phase' = "cleanupFailed"
  /\ UNCHANGED <<browser, context, openPages>>

\* cleanup(), called once runTests has returned: the first close
cleanup_first ==
  /\ phase = "returned"
  /\ \/ Close(CleanupOrder[1]) /\ phase' = "cleaning"
     \/ CloseRejects(CleanupOrder[1])
  /\ UNCHANGED <<clock, reportFilename, links, transport, exit, config, i, step, results, runError, reports,
                 retryVars, cpc, curl, result, imageRequests, imgIdx, pageErrors, ret>>

\* cleanup(): the second close, reached only when the first resolved
cleanup_second ==
  /\ phase = "cleaning"
  /\ \/ Close(CleanupOrder[2]) /\ phase' = "cleaned"
     \/ CloseRejects(CleanupOrder[2])
  /\ UNCHANGED <<clock, reportFilename, links, transport, exit, config, i, step, results, runError, reports,
                 retryVars, cpc, curl, result, imageRequests, imgIdx, pageErrors, ret>>

\* --------------------------------------------------------------- transports
\* a validation that forgets the product URL list
InvalidBaseUrlOnly(c) == c.baseUrl = ""

\* !config.baseUrl || config.productUrls.length === 0
CliInvalid(c) == c.baseUrl = "" \/ Len(c.productUrls) = 0

\* !config.baseUrl || !config.productUrls || config.productUrls.length === 0
PostInvalid(c) == c.baseUrl = "" \/ Len(c.productUrls) = 0

\* results.passedTests / results.totalTests >= 0.8 (0 / 0 is NaN, which is not)
PassRateAtLeast80(r) == r.totalTests # 0 /\ 10 * r.passedTests >= 8 * r.totalTests

\* the test command: the configuration check before the TestRunner is constructed
cli_test_validate ==
  /\ transport = "cli" /\ phase = "start"
  /\ IF CliInvalid(config)
     THEN exit' = 1 /\ phase' = "exited"
     ELSE phase' = "new" /\ UNCHANGED exit
  /\ UNCHANGED <<clock, reportFilename, links, transport, config, browser, context, i, step, results, runError,
                 reports, retryVars, checkVars>>

\* the test command after cleanup() has resolved: process.exit by the pass rate
cli_test_exit ==
  /\ transport = "cli" /\ phase = "cleaned"
  /\ exit' = IF PassRateAtLeast80(results) THEN 0 ELSE 1
  /\ phase' = "exited"
  /\ UNCHANGED <<clock, reportFilename, links, transport, config, browser, context, i, step, results, runError,
                 reports, retryVars, checkVars>>

\* the test command's catch block: initialize(), runTests() or cleanup() threw
cli_test_catch ==
  /\ transport = "cli" /\ phase \in {"initFailed", "threw", "cleanupFailed"}
  /\ exit' = 1
  /\ phase' = "exited"
  /\ UNCHANGED <<clock, reportFilename, links, transport, config, browser, context, i, step, results, runError,
                 reports, retryVars, checkVars>>

\* POST /test: the configuration check before the TestRunner is constructed
post_test_validate ==
  /\ transport = "http" /\ phase = "start"
  /\ IF PostInvalid(config)
     THEN exit' = 400 /\ phase' = "exited"
     ELSE phase' = "new" /\ UNCHANGED exit
  /\ UNCHANGED <<clock, reportFilename, links, transport, config, browser, context, i, step, results, runError,
                 reports, retryVars, checkVars>>

\* The response's reports object: each location is built from a new Date()
\* of its own when the response is sent
ReportLinks(jsonAt, htmlAt) ==
  [json |-> "/reports/" \o ReportFilename(jsonAt) \o ".json",
   html |-> "/reports/" \o ReportFilename(htmlAt) \o ".html"]

\* POST /test after cleanup() has resolved: res.json, status 200; the second
\* new Date() reads the clock at or after the first
post_test_respond ==
  /\ transport = "http" /\ phase = "cleaned"
  /\ exit' = 200
  /\ phase' = "exited"
  /\ \E htmlAt \in {clock, clock + 1} :
       links' = ReportLinks(clock, htmlAt)
  /\ UNCHANGED <<clock, reportFilename, transport, config, browser, context, i, step, results, runError,
                 reports, retryVars, checkVars>>

\* POST /test's catch block: res.status(500)
post_test_catch ==
  /\ transport = "http" /\ phase \in {"initFailed", "threw", "cleanupFailed"}
  /\ exit' = 500
  /\ phase' = "exited"
  /\ UNCHANGED <<clock, reportFilename, links, transport, config, browser, context, i, step, results, runError,
                 reports, retryVars, checkVars>>

\* product URL lists over a set of URLs, up to MaxUrls long
UrlListsOver(urls) == UNION {[1..n -> urls] : n \in 0..MaxUrls}

\* product URL lists of the shop
UrlLists == UrlListsOver(ShopUrls)

Init ==
  /\ transport = "api" /\ exit = "none"
  /\ config \in [baseUrl : {BaseUrl}, productUrls : UrlLists, retryAttempts : 0..MaxRetry]
  /\ browser = "null" /\ context = "null" /\ phase = "new"
  /\ i = 1 /\ step = "none" /\ results = NoResult /\ runError = Undefined
  /\ reports = 0 /\ clock = 0 /\ reportFilename = NoFile /\ links = NoLinks
  /\ attempt = 1 /\ lastError = Undefined /\ rpc = "idle"
  /\ invocations = 0 /\ delays = <<>> /\ thrown = <<>>
  /\ cpc = "idle" /\ curl = "" /\ result = NoResult
  /\ imageRequests = <<>> /\ imgIdx = 0 /\ pageErrors = <<>> /\ openPages = 0 /\ ret = NoRet

Next ==
  \/ initialize
  \/ runTests_start
  \/ runWithRetry_begin
  \/ runWithRetry_loop
  \/ runWithRetry_settle
  \/ runTests_finish
  \/ testProductPage_newPage
  \/ testProductPage_goto
  \/ testProductPage_close
  \/ testImageLoading_newPage
  \/ testImageLoading_response
  \/ testImageLoading_goto
  \/ testImageLoading_analyze
  \/ testImageLoading_close
  \/ detectErrors_newPage
  \/ detectErrors_event
  \/ detectErrors_goto
  \/ detectErrors_close

\* a TestRunner over the shop: initialize(), then runTests()
Spec == Init /\ [][Next]_vars

\* --------------------------------------------- the runner behind its callers
\* the pages the transports are pointed at
TransportUrls == {"/products/ok", "/products/no-price", "/products/timeout"}

\* the configurations a caller may hand over: a transport any list of these
\* URLs, an empty base URL included; a direct caller one URL of the shop
\* the retry counts the transports are given: a negative one, none, one, two
TransportRetries == -1..2

\* what -r, --retries <count> can be given as
RetriesOptions == {ToString(n) : n \in TransportRetries} \cup {"abc"}

\* parseInt(options.retries, 10)
ParseInt(str) ==
  IF \E n \in TransportRetries : ToString(n) = str
  THEN CHOOSE n \in TransportRetries : ToString(n) = str
  ELSE NaN

\* the retryAttempts of a POST /test body: a number, or left out
BodyRetryAttempts == TransportRetries \cup {Omitted}

\* config.retryAttempts as the transport hands it to the TestRunner
RetryAttemptsFrom(t) ==
  CASE t = "cli" -> {ParseInt(str) : str \in RetriesOptions}
    [] t = "http" -> BodyRetryAttempts
    [] OTHER -> {1}

Configs(t) ==
  IF t = "api"
  THEN [baseUrl : {BaseUrl}, productUrls : {<<u>> : u \in ShopUrls},
        retryAttempts : RetryAttemptsFrom(t)]
  ELSE [baseUrl : {"", BaseUrl}, productUrls : UrlListsOver(TransportUrls),
        retryAttempts : RetryAttemptsFrom(t)]

InitTransport ==
  /\ transport \in {"api", "cli", "http"} /\ exit = "none"
  /\ config \in Configs(transport)
  /\ browser = "null" /\ context = "null"
  /\ phase = IF transport = "api" THEN "new" ELSE "start"
  /\ i = 1 /\ step = "none" /\ results = NoResult /\ runError = Undefined
  /\ reports = 0 /\ clock = 0 /\ reportFilename = NoFile /\ links = NoLinks
  /\ attempt = 1 /\ lastError = Undefined /\ rpc = "idle"
  /\ invocations = 0 /\ delays = <<>> /\ thrown = <<>>
  /\ cpc = "idle" /\ curl = "" /\ result = NoResult
  /\ imageRequests = <<>> /\ imgIdx = 0 /\ pageErrors = <<>> /\ openPages = 0 /\ ret = NoRet

NextTransport ==
  \/ Next
  \/ cleanup_first
  \/ cleanup_second
  \/ cli_test_validate
  \/ cli_test_exit
  \/ cli_test_catch
  \/ post_test_validate
  \/ post_test_respond
  \/ post_test_catch
  \/ cleanup_elapse

\* the test command, POST /test or a direct caller driving a TestRunner:
\* initialize(), runTests(), cleanup()
SpecTransport == InitTransport /\ [][NextTransport]_vars

\* ------------------------------------------------- a checker called directly
UnitConfig == [baseUrl |-> BaseUrl, productUrls |-> <<AnyUrl>>, retryAttempts |-> 1]

InitUnit(start) ==
  /\ transport = "api" /\ exit = "none"
  /\ config = UnitConfig
  /\ browser = "open" /\ context = "open" /\ phase = "unit"
  /\ i = 1 /\ step = "none" /\ results = NoResult /\ runError = Undefined
  /\ reports = 0 /\ clock = 0 /\ reportFilename = NoFile /\ links = NoLinks
  /\ attempt = 1 /\ lastError = Undefined /\ rpc = "idle"
  /\ invocations = 0 /\ delays = <<>> /\ thrown = <<>>
  /\ cpc = start /\ curl = AnyUrl /\ result = NoResult
  /\ imageRequests = <<>> /\ imgIdx = 0 /\ pageErrors = <<>> /\ openPages = 0 /\ ret = NoRet

InitProduct == InitUnit("pp_newPage")

NextProduct ==
  \/ testProductPage_newPage
  \/ testProductPage_goto
  \/ testProductPage_close

\* testProductPage(url) called once on a freely chosen page
SpecProduct == InitProduct /\ [][NextProduct]_vars

Returned(kind) == ret.status = "returned" /\ ret.value.kind = kind

\* C1: every ProductPageResult that testProductPage returns has success = true
\* exactly when all seven element flags are true and its errors list is empty.
C1_SuccessIffAllPresentNoErrors ==
  Returned("product") =>
    (ret.value.success <=>
       ((\A e \in Range(Elements) : ret.value.elements[e]) /\ ret.value.errors = <<>>))

\* a returned result of a page that loaded, whose only failure is one probe that threw
C1_Witness ==
  /\ Returned("product")
  /\ ~ret.value.success
  /\ Len(ret.value.errors) = 1
  /\ ret.value.errors[1] = "Meta information test failed"
  /\ Cardinality({e \in Range(Elements) : ret.value.elements[e]}) = 6

\* C2: every returned ProductPageResult has missingElements equal to exactly the
\* names of its false flags when success is false, and empty when success is true.
C2_MissingElementsAreFalseFlags ==
  Returned("product") =>
    /\ ~ret.value.success =>
         Range(ret.value.missingElements)
           = {e \in Range(Elements) : ~ret.value.elements[e]}
    /\ ret.value.success => ret.value.missingElements = <<>>

InitImage == InitUnit("it_newPage")

NextImage ==
  \/ testImageLoading_newPage
  \/ testImageLoading_response
  \/ testImageLoading_goto
  \/ testImageLoading_analyze
  \/ testImageLoading_close

\* testImageLoading(url) called once on a freely chosen page
SpecImage == InitImage /\ [][NextImage]_vars

\* C3: every ImageResult that testImageLoading returns with images.total = 0
\* has success = true.
C3_NoImagesPasses ==
  (Returned("image") /\ ret.value.images.total = 0) => ret.value.success

\* C4: every returned ImageResult with images.total > 0 has success = true exactly
\* when 10 * loaded >= 9 * total and broken = 0, whatever its errors list holds.
C4_SuccessIffRateAndNoBroken ==
  (Returned("image") /\ ret.value.images.total > 0) =>
    (ret.value.success <=>
       (10 * ret.value.images.loaded >= 9 * ret.value.images.total
          /\ ret.value.images.broken = 0))

\* nine of ten images loaded, the tenth failed, some image without alt text: a pass
C4_Witness ==
  /\ Returned("image")
  /\ ret.value.images.total = 10
  /\ ret.value.images.loaded = 9
  /\ ret.value.images.failed = 1
  /\ ret.value.errors # <<>>
  /\ ret.value.success

\* C5: every returned ImageResult has total = loaded + failed + broken.
C5_CountsPartitionTotal ==
  Returned("image") =>
    ret.value.images.total
      = ret.value.images.loaded + ret.value.images.failed + ret.value.images.broken

\* a returned result in which each of the three counters is positive
C5_Witness ==
  /\ Returned("image")
  /\ ret.value.images.loaded > 0
  /\ ret.value.images.failed > 0
  /\ ret.value.images.broken > 0

InitErrors == InitUnit("ed_newPage")

NextErrors ==
  \/ detectErrors_newPage
  \/ detectErrors_event
  \/ detectErrors_goto
  \/ detectErrors_inpage
  \/ detectErrors_close

\* detectErrors(url) called once on a freely chosen page
SpecErrors == InitErrors /\ [][NextErrors]_vars

\* C6: every ErrorResult that detectErrors returns has
\* totalErrors = len(consoleErrors) + len(networkErrors) + len(resourceErrors).
C6_TotalIsSumOfLists ==
  Returned("errors") =>
    ret.value.totalErrors
      = Len(ret.value.consoleErrors) + Len(ret.value.networkErrors)
          + Len(ret.value.resourceErrors)

\* C7: every returned ErrorResult has success = true exactly when consoleErrors holds
\* no entry of level 'error' and networkErrors holds no entry with status >= 500.
C7_SuccessIffNoCriticalEntries ==
  Returned("errors") =>
    (ret.value.success <=>
       /\ \A k \in 1..Len(ret.value.consoleErrors) :
            ret.value.consoleErrors[k].level # "error"
       /\ \A k \in 1..Len(ret.value.networkErrors) :
            ret.value.networkErrors[k].status < 500)

\* the result list a step's runWithRetry call feeds
ResultList(r, s) ==
  CASE s = "product" -> r.productPageResults
    [] s = "image" -> r.imageResults
    [] OTHER -> r.errorResults

\* the step whose runWithRetry call returned last
PreviousStep ==
  CASE step = "image" -> "product"
    [] step = "errors" -> "image"
    [] OTHER -> "errors"

\* C8: with retryAttempts = n >= 1, a runWithRetry call whose operation first
\* succeeds at attempt k <= n has invoked it exactly k times and returns its value;
\* a call whose operation fails on every attempt has invoked it exactly n times and
\* throws the error of the last attempt.
C8_RetryInvocations ==
  config.retryAttempts >= 1 =>
    /\ rpc = "returned" =>
         /\ invocations = Len(thrown) + 1
         /\ invocations <= config.retryAttempts
         /\ \A k \in 1..Len(thrown) : thrown[k].n = k
         /\ ret.status = "returned"
         /\ LET pushed == ResultList(results, PreviousStep)
            IN pushed # <<>> /\ pushed[Len(pushed)] = ret.value
    /\ rpc = "threw" =>
         /\ invocations = config.retryAttempts
         /\ Len(thrown) = config.retryAttempts
         /\ \A k \in 1..Len(thrown) : thrown[k].n = k
         /\ phase = "threw"
         /\ runError = thrown[config.retryAttempts]

\* a call that returned at its second attempt, after the first one threw
C8_Witness ==
  /\ rpc = "returned"
  /\ config.retryAttempts = 2
  /\ invocations = 2
  /\ Len(thrown) = 1

\* number of results in the list whose success is true
Passes(rs) == Len(SelectSeq(rs, LAMBDA x : x.success))

\* C9: a report returned by runTests over N product URLs has totalTests = 3 * N,
\* passedTests + failedTests = totalTests, N entries in each of the three result
\* lists, and passedTests equal to the number of entries whose success is true.
C9_ReportCounts ==
  phase = "returned" =>
    LET N == Len(config.productUrls)
    IN /\ results.totalTests = 3 * N
       /\ results.passedTests + results.failedTests = results.totalTests
       /\ Len(results.productPageResults) = N
       /\ Len(results.imageResults) = N
       /\ Len(results.errorResults) = N
       /\ results.passedTests
            = Passes(results.productPageResults) + Passes(results.imageResults)
                + Passes(results.errorResults)

\* a returned report over two URLs with checks that passed and checks that failed,
\* one URL passing a single check only
C9_Witness ==
  /\ phase = "returned"
  /\ Len(config.productUrls) = 2
  /\ results.passedTests = 4
  /\ results.failedTests = 2
  /\ \E k \in 1..2 :
       /\ ~results.productPageResults[k].success
       /\ ~results.imageResults[k].success
       /\ results.errorResults[k].success

\* a step in which runWithRetry invokes a checker
CheckerInvoked == cpc = "idle" /\ cpc' # "idle"

\* the checker is the next one due, for the URL due, given the results so far
InvokedInOrder ==
  LET np == Len(results.productPageResults)
      ni == Len(results.imageResults)
      ne == Len(results.errorResults)
  IN /\ ne < Len(config.productUrls)
     /\ curl' = config.productUrls[ne + 1]
     /\ cpc' = "pp_newPage" => (np = ne /\ ni = ne)
     /\ cpc' = "it_newPage" => (np = ne + 1 /\ ni = ne)
     /\ cpc' = "ed_newPage" => (np = ne + 1 /\ ni = ne + 1)
     /\ cpc' \in {"pp_newPage", "it_newPage", "ed_newPage"}

\* every URL has its three results, entry k of each list being productUrls[k]'s
AllUrlsChecked ==
  /\ Len(results'.productPageResults) = Len(config.productUrls)
  /\ Len(results'.imageResults) = Len(config.productUrls)
  /\ Len(results'.errorResults) = Len(config.productUrls)
  /\ \A k \in 1..Len(config.productUrls) :
       /\ results'.productPageResults[k].url = config.productUrls[k]
       /\ results'.productPageResults[k].kind = "product"
       /\ results'.imageResults[k].url = config.productUrls[k]
       /\ results'.imageResults[k].kind = "image"
       /\ results'.errorResults[k].url = config.productUrls[k]
       /\ results'.errorResults[k].kind = "errors"

\* C10: runTests takes productUrls in list order and per URL invokes
\* testProductPage, then testImageLoading, then detectErrors, whatever the success
\* of the results so far; a run that returns has one result per check and URL,
\* entry k of each list belonging to productUrls[k].
C10_ChecksInOrder ==
  [][/\ CheckerInvoked => InvokedInOrder
     /\ (phase = "running" /\ phase' = "returned") => AllUrlsChecked]_vars

\* a returned report over two URLs whose first product-page check failed
C10_Witness ==
  /\ phase = "returned"
  /\ Len(config.productUrls) = 2
  /\ ~results.productPageResults[1].success
  /\ Len(results.imageResults) = 2
  /\ Len(results.errorResults) = 2

\* ---------------------------------------------------------------------------
\* C11: whenever the test command was invoked and runTests returned a report
\* (the report files are written right before it returns), the process exit
\* status is 0 exactly when passedTests / totalTests >= 0.8.
C11_ExitStatusByPassRate ==
  (transport = "cli" /\ phase = "exited" /\ reports > 0) =>
    (exit = 0 <=> 10 * results.passedTests >= 8 * results.totalTests)

FixImagesRecommended(recommendations) ==
  \E k \in 1..Len(recommendations) :
    \E n \in 1..MaxImages + 1 :
      recommendations[k] = "Fix " \o ToString(n) \o " broken images"

\* ---------------------------------------------------------------------------
\* C13: the page with ten images of which one is answered 404 gets an image
\* result with total = 10, loaded = 9, broken = 1, failed = 0 and success = false,
\* and in every returned report an image result with broken > 0 contributes a
\* warning and a "Fix N broken images" recommendation to the summary.
C13_BrokenImagesWarned ==
  phase = "returned" =>
    \A k \in 1..Len(results.imageResults) :
      LET im == results.imageResults[k] IN
        /\ im.url = "/products/404-img" =>
             /\ im.images = [total |-> 10, loaded |-> 9, broken |-> 1, failed |-> 0]
             /\ ~im.success
        /\ im.images.broken > 0 =>
             /\ results.summary.warnings >= 1
             /\ FixImagesRecommended(results.summary.recommendations)

\* ---------------------------------------------------------------------------
\* C14: in every report runTests returns, summary.recommendations holds no
\* string twice, however many URLs trigger the same recommendation.
C14_RecommendationsDistinct ==
  phase = "returned" =>
    LET recs == results.summary.recommendations IN
      \A a, b \in 1..Len(recs) : a # b => recs[a] # recs[b]

\* two URLs whose product pages both lack the price: one price recommendation
C14_Witness ==
  /\ phase = "returned"
  /\ Len(results.productPageResults) = 2
  /\ \A k \in 1..2 :
       /\ ~results.productPageResults[k].success
       /\ "price" \in Range(results.productPageResults[k].missingElements)
  /\ "Product price is not displayed correctly"
       \in Range(results.summary.recommendations)

\* ---------------------------------------------------------------------------
\* C15: for every product page result with success = false in a returned report,
\* a false addToCartButton flag puts 'Add-to-cart button is missing or
\* non-functional' among the recommendations and a false price flag puts
\* 'Product price is not displayed correctly' there; the loaded page lacking
\* only these two has missingElements = [price, addToCartButton] and the summary
\* has criticalIssues >= 1.
C15_MissingFeaturesRecommended ==
  phase = "returned" =>
    \A k \in 1..Len(results.productPageResults) :
      LET r == results.productPageResults[k]
          recs == Range(results.summary.recommendations)
      IN ~r.success =>
           /\ ~r.elements["addToCartButton"] =>
                "Add-to-cart button is missing or non-functional" \in recs
           /\ ~r.elements["price"] =>
                "Product price is not displayed correctly" \in recs
           /\ r.url = "/products/no-price" =>
                /\ r.missingElements = <<"price", "addToCartButton">>
                /\ results.summary.criticalIssues >= 1

\* runWithRetry has thrown after its operation threw on every attempt
Exhausted == rpc = "threw" /\ thrown # <<>>

\* ---------------------------------------------------------------------------
\* C16: if a checker throws on every one of the retryAttempts attempts, runTests
\* throws that last error; from then on no checker is invoked, no result is
\* recorded, no summary is computed, no report file is written and no report
\* reaches the caller (no exit status 0, no HTTP 200).
C16_ExhaustedRetriesAbortRun ==
  /\ [](Exhausted =>
          /\ Len(thrown) = config.retryAttempts
          /\ runError = thrown[Len(thrown)]
          /\ phase \in {"threw", "exited"}
          /\ cpc = "idle"
          /\ Len(results.errorResults) < Len(config.productUrls)
          /\ results.summary = NewReport.summary
          /\ reports = 0
          /\ phase = "exited" => exit \notin {0, 200})
  /\ [][Exhausted =>
          /\ Exhausted'
          /\ UNCHANGED <<results, reports, invocations, cpc, i, step>>]_vars

\* the image check of the second URL exhausted its retries: two results of the
\* first URL and one of the second stay behind, the transport reports a failure
C16_Witness ==
  /\ Exhausted
  /\ phase = "exited"
  /\ step = "image" /\ i = 2
  /\ Len(results.productPageResults) = 2
  /\ Len(results.errorResults) = 1
  /\ config.retryAttempts = 2

\* ---------------------------------------------------------------------------
\* C17: at every point of a run at most one page is open in the browsing
\* context; a checker at work holds exactly one, and none is open while no
\* checker is running: each checker has closed its page when it returns or
\* throws, whether the page loaded, navigation failed or a probe threw.
C17_OnePageAtATime ==
  /\ openPages <= 1
  /\ cpc = "idle" => openPages = 0
  /\ cpc \in {"pp_goto", "pp_close", "it_goto", "it_loop", "it_close",
              "ed_goto", "ed_close"} => openPages = 1

\* the run has returned after a page that loaded and whose meta probe threw, and
\* a page on which all three navigations failed
C17_Witness ==
  /\ phase = "returned"
  /\ openPages = 0
  /\ Len(results.productPageResults) = 2
  /\ results.productPageResults[1].url = "/products/404-img"
  /\ results.productPageResults[1].errors # <<>>
  /\ ~Caught(results.productPageResults[1])
  /\ Caught(results.productPageResults[2])
  /\ Caught(results.imageResults[2])
  /\ Caught(results.errorResults[2])

\* ---------------------------------------------------------------------------
\* C18: when baseUrl is empty or productUrls is empty, the test command and
\* POST /test reject the run before a TestRunner is initialised: no browser is
\* launched, no check runs, no report is written, and the answer is exit
\* status 1, respectively HTTP 400.
C18_InvalidConfigRejected ==
  (transport \in {"cli", "http"}
     /\ (config.baseUrl = "" \/ config.productUrls = <<>>)) =>
    /\ phase \in {"start", "exited"}
    /\ browser = "null" /\ context = "null"
    /\ invocations = 0 /\ cpc = "idle" /\ openPages = 0
    /\ results = NoResult
    /\ reports = 0
    /\ phase = "exited" => exit = IF transport = "cli" THEN 1 ELSE 400

\* the test command has rejected a configuration with a base URL and no product URL
C18_Witness ==
  /\ transport = "cli"
  /\ config.baseUrl # "" /\ config.productUrls = <<>>
  /\ config.retryAttempts = 1
  /\ phase = "exited" /\ exit = 1
  /\ browser = "null"

C20_CleanupOrderAndFrame ==
  /\ [][(context = "open" /\ context' = "closed") => browser = "open"]_vars
  /\ [][(browser = "open" /\ browser' = "closed") => context # "open"]_vars
  /\ [][(phase \in {"returned", "cleaning", "cleaned", "cleanupFailed"}) =>
          UNCHANGED <<results, reports>>]_vars

\* browser.close() rejected after the context was closed; the report of a run
\* with issues is still there and the transport has answered
C20_Witness ==
  /\ phase = "exited"
  /\ context = "closed" /\ browser = "open"
  /\ reports = 1
  /\ results.passedTests + results.failedTests = results.totalTests
  /\ results.summary.criticalIssues >= 1
  /\ results.summary.recommendations # <<>>

\* the waits a runWithRetry call has started after f failed attempts out of n
WaitsAfter(f, n) == IF f < n THEN f ELSE IF n > 0 THEN n - 1 ELSE 0

Answered == phase = "exited" /\ transport = "http" /\ exit = 200

\* C22: the json and html locations in the response of an HTTP-triggered run use
\* the stem of the files generateReport wrote for that run
C22_ResponseNamesWrittenFiles ==
  Answered =>
    /\ links.json = "/reports/" \o reportFilename \o ".json"
    /\ links.html = "/reports/" \o reportFilename \o ".html"

\* ------------------------------------------------------------------ C23
\* page.goto(url) rejects on every visit of this page
NavigationFails(url) == NavOutcomes(url) = {FALSE}

\* the entries the checker's own catch block tagged
TestRunnerEntries(r) ==
  {k \in 1..Len(r.consoleErrors) : r.consoleErrors[k].source = "test-runner"}

\* C23: when navigation fails inside a checker, the checker's catch block turns
\* the failure into a result with success = false: testProductPage's has exactly
\* one error string and all seven flags false, detectErrors' has exactly one
\* console entry with source 'test-runner', of level 'error'. The navigation
\* failure is never what a checker throws, so a runWithRetry call that no
\* rejecting newPage() or page.close() disturbed invoked the checker exactly
\* once, and runTests pushes the result and moves on to the next check.
C23_NavigationFailureIsReturned ==
  /\ [](results # NoResult =>
          /\ \A k \in 1..Len(results.productPageResults) :
                LET r == results.productPageResults[k]
                IN NavigationFails(r.url) =>
                     /\ ~r.success
                     /\ Len(r.errors) = 1
                     /\ \A e \in Range(Elements) : ~r.elements[e]
          /\ \A k \in 1..Len(results.imageResults) :
                LET r == results.imageResults[k]
                IN NavigationFails(r.url) => ~r.success
          /\ \A k \in 1..Len(results.errorResults) :
                LET r == results.errorResults[k]
                IN NavigationFails(r.url) =>
                     /\ ~r.success
                     /\ Cardinality(TestRunnerEntries(r)) = 1
                     /\ \A j \in TestRunnerEntries(r) : r.consoleErrors[j].level = "error")
  /\ [](ret.status = "threw" => ret.error.name \in {"newPage", "close"})
  /\ []((rpc = "returned" /\ NavigationFails(curl) /\ thrown = <<>>) => invocations = 1)
  /\ [][(rpc = "await" /\ rpc' = "returned" /\ NavigationFails(curl)) =>
          (phase' = "running" /\ step' # step /\ ~ret.value.success)]_vars

\* the run has returned a report over the page whose navigation fails: each of the
\* three checkers was invoked once, and the error result holds the console warning
\* logged before the failure next to the catch block's entry
C23_Witness ==
  /\ phase = "returned"
  /\ config.productUrls = <<"/products/timeout">>
  /\ thrown = <<>> /\ invocations = 1
  /\ results.failedTests = 3
  /\ Len(results.productPageResults[1].errors) = 1
  /\ Len(results.errorResults[1].consoleErrors) = 2

\* ------------------------------------------------ analyzeImage on its own
\* the image responses the listener can have captured when analyzeImage is called
CapturedInputs ==
  [url : {"/img/a.png"}, status : {200, 204, 304, 403, 404, 500}]
  \cup {[url |-> "/img/b.png", status |-> 404]}

\* the imageRequests argument: the responses captured so far, in arrival order
analyzeImage_capture ==
  /\ cpc = "ai_capture"
  /\ \/ /\ Len(imageRequests) < MaxCaptured
        /\ \E r \in CapturedInputs : imageRequests' = Append(imageRequests, r)
        /\ UNCHANGED cpc
     \/ /\ cpc' = "ai_call"
        /\ UNCHANGED imageRequests
  /\ UNCHANGED <<runnerVars, retryVars, curl, result, imgIdx, pageErrors, openPages, ret>>

\* await this.analyzeImage(page, img, imageRequests) for one img element
analyzeImage_call ==
  /\ cpc = "ai_call"
  /\ \E img \in ImageInputs :
       result' = [kind |-> "detail", img |-> img,
                  detail |-> analyzeImage(img, imageRequests)]
  /\ cpc' = "idle"
  /\ UNCHANGED <<runnerVars, retryVars, curl, imageRequests, imgIdx, pageErrors, openPages, ret>>

InitAnalyze == InitUnit("ai_capture")

NextAnalyze ==
  \/ analyzeImage_capture
  \/ analyzeImage_call

\* analyzeImage called once on a freely chosen img element and list of captured
\* responses
SpecAnalyze == InitAnalyze /\ [][NextAnalyze]_vars

\* analyzeImage has returned its ImageDetail
Analysed == cpc = "idle" /\ result.kind = "detail"

\* the image is DOM-complete with positive natural width and height
DomLoaded(img) == img.complete /\ img.naturalWidth > 0 /\ img.naturalHeight > 0

\* the positions of the captured responses for exactly this source URL
ResponsesFor(src) == {k \in 1..Len(imageRequests) : imageRequests[k].url = src}

\* ------------------------------------------------------------------ C24
\* C24: analyzeImage gives each image one of the three statuses by the first
\* applicable rule: an empty source is broken ('No source URL'); else a
\* DOM-complete image with positive natural width and height is loaded; else,
\* if a response was captured for exactly that source URL, the first such
\* response decides: 2xx is loaded, 404 is broken, any other status >= 400 is
\* failed with the error text 'HTTP <status>'.
C24_FirstApplicableRule ==
  Analysed =>
    LET img == result.img
        detail == result.detail
    IN /\ detail.status \in {"loaded", "broken", "failed"}
       /\ IF img.src \in {"", " "}
          THEN detail.status = "broken" /\ detail.error = "No source URL"
          ELSE IF DomLoaded(img)
          THEN detail.status = "loaded"
          ELSE ResponsesFor(img.src) # {} =>
                 LET first == CHOOSE k \in ResponsesFor(img.src) :
                                \A j \in ResponsesFor(img.src) : k <= j
                     st == imageRequests[first].status
                 IN /\ (st >= 200 /\ st < 300) => detail.status = "loaded"
                    /\ st = 404 => detail.status = "broken"
                    /\ (st >= 400 /\ st # 404) =>
                         (detail.status = "failed"
                            /\ detail.error = "HTTP " \o ToString(st))

\* an incomplete image whose response, captured after another image's 404, was
\* a 403: failed, 'HTTP 403'
C24_Witness ==
  /\ Analysed
  /\ result.img.src = "/img/a.png" /\ ~result.img.complete
  /\ imageRequests = <<[url |-> "/img/b.png", status |-> 404],
                       [url |-> "/img/a.png", status |-> 403]>>
  /\ result.detail = [status |-> "failed", error |-> "HTTP 403"]

\* ------------------------------------------------------------------ C25
\* C25: an image with a non-empty source that is not DOM-complete, has no
\* captured response and whose HEAD probe fails without an HTTP status (the
\* fetch itself errors) is classified failed, not broken.
C25_ProbeWithoutStatusIsFailed ==
  (Analysed /\ result.img.src \notin {"", " "} /\ ~DomLoaded(result.img)
     /\ ResponsesFor(result.img.src) = {} /\ result.img.head = "neterror") =>
    result.detail.status = "failed"

\* ------------------------------------------------------------------ C26
\* C26: every unhandled rejection or global script error the in-page listeners
\* of detectErrors captured appears as a level-'error' entry in the
\* consoleErrors of the ErrorResult returned for that visit and is counted in
\* totalErrors.
C26_InPageErrorsReported ==
  Returned("errors") =>
    /\ \A k \in 1..Len(pageErrors) :
         \E j \in 1..Len(ret.value.consoleErrors) :
           ret.value.consoleErrors[j] = [level |-> "error", source |-> pageErrors[k].source]
    /\ ret.value.totalErrors >= Len(pageErrors)

\* ------------------------------------------------------------------ C27
\* C27: when the test command or the POST /test handler has finished handling a
\* run, neither the browser that initialize() launched nor its browsing context
\* is still open, whether the run returned, runTests threw, initialize() failed
\* after the launch or context.close() failed inside cleanup().
C27_BrowserClosedWhenHandled ==
  (phase = "exited" /\ transport \in {"cli", "http"}) =>
    (browser # "open" /\ context # "open")

\* ------------------------------------------------------------------ C28
\* C28: once detectErrors has computed totalErrors and success, or its catch
\* block has run, no console, pageerror, response or requestfailed event
\* appends an entry to the lists of the result it is about to return.
C28_NoEntryAfterJudgement ==
  [][(cpc = "ed_close") =>
       /\ result'.consoleErrors = result.consoleErrors
       /\ result'.networkErrors = result.networkErrors
       /\ result'.resourceErrors = result.resourceErrors]_vars

\* ------------------------------------------------------------------ C29
\* the for loop of runWithRetry has no attempt to make
NoAttempt(c) == ~LessOrEqual(1, c.retryAttempts)

\* C29: with a config.retryAttempts smaller than 1 or not a number (NaN from
\* the command line, left out of a POST /test body), a run over at least one
\* URL never invokes a checker, opens no page, records no result, writes no
\* report and answers neither exit status 0 nor HTTP 200; its first
\* runWithRetry call falls out of the loop at once and throws the unassigned
\* lastError, which aborts runTests at the first URL.
C29_NoAttemptAbortsRun ==
  /\ []((NoAttempt(config) /\ config.productUrls # <<>>) =>
          /\ invocations = 0 /\ cpc = "idle" /\ openPages = 0
          /\ results \in {NoResult, NewReport}
          /\ reports = 0
          /\ phase \notin {"returned", "cleaning", "cleaned"}
          /\ phase = "exited" => exit \notin {0, 200}
          /\ rpc \in {"idle", "loop", "threw"}
          /\ rpc = "threw" => (i = 1 /\ step = "product" /\ runError = Undefined))
  /\ [][(rpc = "loop" /\ NoAttempt(config)) =>
          (rpc' = "threw" /\ phase' = runTestsCatch)]_vars

\* POST /test with a body that leaves retryAttempts out: the validation let it
\* pass, the first runWithRetry call threw without an attempt, the answer is 500
C29_Witness ==
  /\ phase = "exited"
  /\ transport = "http"
  /\ ~IsNumber(config.retryAttempts)
  /\ Len(config.productUrls) = 2
  /\ rpc = "threw" /\ invocations = 0
  /\ results = NewReport
  /\ exit = 500

\* ------------------------------------------------------------------ C30
\* runTests has returned a report in which every one of the 3 x N checks passed
AllPassed == phase = "returned" /\ results.failedTests = 0

\* the error results of the report that hold at least one network error
WithNetworkErrors ==
  {k \in 1..Len(results.errorResults) : results.errorResults[k].networkErrors # <<>>}

====
